---- MODULE Spec2Model ----
(***************************************************************************)
(* Model of the demo-request dialog (DemoModal), the notification (Toast)  *)
(* and the page shell (App) of src/App.tsx.                                *)
(*                                                                         *)
(* Strings that the code inspects (the email) are sequences of one-        *)
(* character strings; strings the code only passes around (name,           *)
(* organization, message, notification texts) are TLA+ strings.            *)
(* Time is counted in milliseconds and advances in steps of TickMs.        *)
(***************************************************************************)
EXTENDS Integers, Sequences, FiniteSets, TLC

\* ------------------------------------------------------------------ bounds
MaxPending == 2      \* sendEmail calls in flight at one time
AgeCap == 6000       \* the age of a notification is counted up to here
MaxQueue == 2        \* intersection entries queued for one callback
MaxMounts == 2       \* times the tracked section is mounted in one run

\* ------------------------------------------------------- program constants
ToastMs == 5000      \* Toast: setTimeout(..., 5000)
SendMs == 1500       \* sendEmail: setTimeout(resolve, 1500)

RECURSIVE GCD(_, _)
GCD(a, b) == IF b = 0 THEN a ELSE GCD(b, a % b)

\* Every deadline of the program falls on a multiple of TickMs.
TickMs == GCD(ToastMs, SendMs)

Min(a, b) == IF a <= b THEN a ELSE b

\* --------------------------------------------------------------- characters
LowerSeq == <<"a","b","c","d","e","f","g","h","i","j","k","l","m",
              "n","o","p","q","r","s","t","u","v","w","x","y","z">>
UpperSeq == <<"A","B","C","D","E","F","G","H","I","J","K","L","M",
              "N","O","P","Q","R","S","T","U","V","W","X","Y","Z">>
Lower == {LowerSeq[i] : i \in DOMAIN LowerSeq}
Upper == {UpperSeq[i] : i \in DOMAIN UpperSeq}
Digit == {"0","1","2","3","4","5","6","7","8","9"}

\* String.prototype.toLowerCase, one character
ToLowerChar(c) ==
    IF c \in Upper
    THEN LowerSeq[CHOOSE i \in DOMAIN UpperSeq : UpperSeq[i] = c]
    ELSE c

toLowerCase(s) == [i \in DOMAIN s |-> ToLowerChar(s[i])]

\* \s of the regular expression
WhiteSpace == {" ", "\t", "\n", "\r", "\f"}
\* what . of the regular expression does not match
LineTerminator == {"\n", "\r"}

\* [^<>()[\]\\.,;:\s@"]
LocalExcluded == {"<", ">", "(", ")", "[", "]", "\\", ".", ",", ";", ":", "@", "\""}
                    \cup WhiteSpace
\* [a-zA-Z\-0-9]
LabelChar == Lower \cup Upper \cup Digit \cup {"-"}
\* [a-zA-Z]
AlphaChar == Lower \cup Upper

\* the positions of character c in s
Positions(s, c) == {i \in DOMAIN s : s[i] = c}

\* the pieces of s between the occurrences of c (String.split)
RECURSIVE Split(_, _)
Split(s, c) ==
    IF Positions(s, c) = {}
    THEN <<s>>
    ELSE LET i == CHOOSE k \in Positions(s, c) : \A j \in Positions(s, c) : k <= j
         IN  <<SubSeq(s, 1, i - 1)>> \o Split(SubSeq(s, i + 1, Len(s)), c)

AllIn(s, S) == \A i \in DOMAIN s : s[i] \in S

\* [^<>()[\]\\.,;:\s@"]+(\.[^<>()[\]\\.,;:\s@"]+)*
DotAtom(s) ==
    LET parts == Split(s, ".")
    IN  \A i \in DOMAIN parts :
            /\ Len(parts[i]) >= 1
            /\ \A j \in DOMAIN parts[i] : parts[i][j] \notin LocalExcluded

\* ".+"
Quoted(s) ==
    /\ Len(s) >= 3
    /\ s[1] = "\""
    /\ s[Len(s)] = "\""
    /\ \A i \in 2..(Len(s) - 1) : s[i] \notin LineTerminator

\* \[[0-9]{1,3}\.[0-9]{1,3}\.[0-9]{1,3}\.[0-9]{1,3}\]
IpLiteral(d) ==
    /\ Len(d) >= 2
    /\ d[1] = "["
    /\ d[Len(d)] = "]"
    /\ LET parts == Split(SubSeq(d, 2, Len(d) - 1), ".")
       IN  /\ Len(parts) = 4
           /\ \A i \in DOMAIN parts :
                 Len(parts[i]) \in 1..3 /\ AllIn(parts[i], Digit)

\* a domain pattern whose label group may be absent: ([a-zA-Z\-0-9]+\.)*
DomainName_NoDotNeeded(d) ==
    LET parts == Split(d, ".")
        n == Len(parts)
    IN  /\ \A i \in 1..(n - 1) : Len(parts[i]) >= 1 /\ AllIn(parts[i], LabelChar)
        /\ Len(parts[n]) >= 2
        /\ AllIn(parts[n], AlphaChar)

\* ([a-zA-Z\-0-9]+\.)+[a-zA-Z]{2,}
DomainName(d) ==
    LET parts == Split(d, ".")
        n == Len(parts)
    IN  /\ n >= 2
        /\ \A i \in 1..(n - 1) : Len(parts[i]) >= 1 /\ AllIn(parts[i], LabelChar)
        /\ Len(parts[n]) >= 2
        /\ AllIn(parts[n], AlphaChar)

\* re.test(String(email).toLowerCase()): neither domain form holds an "@",
\* so the "@" of the pattern is the last one of the string.
validateEmail(email) ==
    LET s == toLowerCase(email)
        ats == Positions(s, "@")
    IN  /\ ats # {}
        /\ LET at == CHOOSE k \in ats : \A j \in ats : j <= k
               local == SubSeq(s, 1, at - 1)
               domain == SubSeq(s, at + 1, Len(s))
           IN  /\ DotAtom(local) \/ Quoted(local)
               /\ IpLiteral(domain) \/ DomainName(domain)

\* data.email.startsWith("fail")
includes_PrefixOnly(s, sub) ==
    Len(s) >= Len(sub) /\ SubSeq(s, 1, Len(sub)) = sub

\* data.email.includes("fail")
includes(s, sub) ==
    \E i \in 1..(Len(s) - Len(sub) + 1) : SubSeq(s, i, i + Len(sub) - 1) = sub

\* ------------------------------------------------------------------ inputs
E_empty == <<>>
E_bad == <<"b","a","d","-","a","d","d","r","e","s","s">>
E_nodot == <<"a","@","b","c">>
E_fail == <<"t","e","s","t","@","f","a","i","l",".","c","o","m">>
E_ok == <<"t","e","s","t","@","o","k",".","c","o","m">>

\* what the user may type into each input of the form
Names == {"", "Ann"}
Emails == {E_empty, E_bad, E_nodot, E_fail, E_ok}
Organizations == {"", "Orbis"}
Messages == {"", "hi"}
FieldNames == {"name", "email", "organization", "message"}

FieldValues(f) ==
    CASE f = "name" -> Names
      [] f = "email" -> Emails
      [] f = "organization" -> Organizations
      [] f = "message" -> Messages

\* ------------------------------------------------------------------- state
VARIABLES
    isModalOpen,   \* App: useState(false)
    formData,      \* DemoModal: useState({name:'',email:'',organization:'',message:''})
    isSending,     \* DemoModal: useState(false)
    toast,         \* App: useState(null)
    timers,        \* pending setTimeout callbacks of Toast's effect
    pending,       \* sendEmail calls that have not resolved, oldest first,
                   \* each with whether the DemoModal that made it is mounted
    watch,         \* whether the stopwatch runs in this behaviour
    toastAge,      \* stopwatch: ms since the notification on screen was emitted
    replaced,      \* stopwatch: the notification on screen was emitted while
                   \* another one was on screen
    last,          \* what the last event did
    tracker        \* one useOnScreen instance, its observer and its section

vars == <<isModalOpen, formData, isSending, toast, timers, pending,
          watch, toastAge, replaced, last, tracker>>

\* the state of the dialog and the notification
pageVars == <<isModalOpen, formData, isSending, toast, timers, pending,
              watch, toastAge, replaced, last>>

\* a form that starts with a name in it
EmptyForm_Prefilled ==
    [name |-> "Ann", email |-> <<>>, organization |-> "", message |-> ""]

EmptyForm == [name |-> "", email |-> E_empty, organization |-> "", message |-> ""]

NoToast == [type |-> "null", message |-> ""]

MsgMissing == "Please fill in all required fields."
MsgInvalid == "Please enter a valid email address."
MsgFailed == "Failed to send. Please try again."
MsgSuccess == "Successful, we'll get back to you soon!"

\* the arguments of a call of the notification sink
Notification(type, message) == [type |-> type, message |-> message]

\* the record of an event: the handler that ran, the notification it handed
\* to the sink and the one that was on screen then, whether it fired onClose,
\* whether it called sendEmail, whether the DemoModal it belongs to was
\* unmounted when it ran, and the calls it made after an await, in order
Ev(op, emitted, closeSignal, sent, stale) ==
    [op |-> op, emitted |-> emitted,
     over |-> IF emitted = NoToast THEN NoToast ELSE toast,
     closeSignal |-> closeSignal, sent |-> sent, stale |-> stale,
     calls |-> <<>>]

\* ------------------------------------------------------------------- Toast
\* a cleanup that leaves the timer running
ToastCleanup_Missing(ts) == ts

\* clearTimeout(timer) of the effect's cleanup: the timer of the effect
\* that is being cleaned up
ToastCleanup(ts) == SelectSeq(ts, LAMBDA t : ~t.cur)

\* setTimeout(() => onClose(), 5000) of the effect; the handle of an earlier
\* effect is out of reach once the effect has run again
ToastEffect(ts) ==
    [i \in DOMAIN ts |-> [ts[i] EXCEPT !.cur = FALSE]]
        \o <<[left |-> ToastMs, cur |-> TRUE]>>

\* App renders: onClose={() => setToast(null)} is a new function on every
\* render, so a mounted Toast cleans its effect up and runs it again; a
\* Toast that unmounts only cleans up.
AppRender(ts, wasShown, newToast) ==
    LET cleaned == IF wasShown THEN ToastCleanup(ts) ELSE ts
    IN  IF newToast = NoToast THEN cleaned ELSE ToastEffect(cleaned)

\* a sink that keeps the notification on screen until it is dismissed
showToast_KeepShown(type, message) ==
    IF toast # NoToast THEN toast ELSE [type |-> type, message |-> message]

\* App.showToast: setToast({ message, type })
showToast(type, message) == [type |-> type, message |-> message]

\* --------------------------------------------------------------- DemoModal
\* a submit button without the disabled attribute
SubmitDisabled_Never == FALSE

\* <button type="submit" disabled={isSending}>
SubmitDisabled == isSending

\* a required-field check that forgets the organization
Missing_NoOrganization(fd) == fd.name = "" \/ fd.email = <<>>

\* !name || !email || !organization
Missing(fd) == fd.name = "" \/ fd.email = <<>> \/ fd.organization = ""

\* the checks of handleSubmit with the email check first
Validate_EmailFirst(fd) ==
    IF ~validateEmail(fd.email) THEN "invalid"
    ELSE IF Missing(fd) THEN "missing"
    ELSE "ok"

\* the checks of handleSubmit, in its order
Validate(fd) ==
    IF Missing(fd) THEN "missing"
    ELSE IF ~validateEmail(fd.email) THEN "invalid"
    ELSE "ok"

\* the result of sendEmail(data)
sendEmail(data) ==
    IF includes(data.email, <<"f","a","i","l">>)
    THEN [success |-> FALSE, message |-> MsgFailed]
    ELSE [success |-> TRUE, message |-> MsgSuccess]

\* the position of call c in a sequence of calls, 0 if it is not made
CallAt(calls, c) ==
    IF \E i \in DOMAIN calls : calls[i] = c
    THEN CHOOSE i \in DOMAIN calls : calls[i] = c
    ELSE 0

\* a continuation that closes the dialog whatever the result
Continuation_ClosesAlways(result) == <<"setIsSending", "showToast", "onClose">>

\* a continuation that leaves isSending set after a failure
Continuation_NoReset(result) ==
    IF result.success
    THEN <<"setIsSending", "showToast", "onClose">>
    ELSE <<"showToast">>

\* a continuation that closes the dialog before it notifies
Continuation_ClosesFirst(result) ==
    IF result.success
    THEN <<"setIsSending", "onClose", "showToast">>
    ELSE <<"setIsSending", "showToast">>

\* what handleSubmit calls after await sendEmail(formData), in order
Continuation(result) ==
    IF result.success
    THEN <<"setIsSending", "showToast", "onClose">>
    ELSE <<"setIsSending", "showToast">>

\* a handleSubmit that calls sendEmail twice
Invoke_Twice(fd) ==
    <<[data |-> fd, left |-> SendMs, mounted |-> TRUE],
      [data |-> fd, left |-> SendMs, mounted |-> TRUE]>>

\* the sendEmail calls that handleSubmit starts for valid form data
Invoke(fd) == <<[data |-> fd, left |-> SendMs, mounted |-> TRUE]>>

Mounted ==
    /\ isModalOpen = FALSE
    /\ formData = EmptyForm
    /\ isSending = FALSE
    /\ toast = NoToast
    /\ timers = <<>>
    /\ pending = <<>>
    /\ toastAge = 0
    /\ replaced = FALSE
    /\ last = Ev("init", NoToast, FALSE, FALSE, FALSE)

\* ------------------------------------------------------------- useOnScreen
\* visible fractions and thresholds, in percent of the region's area
Thresholds == {0, 10, 50, 100}
Fractions == {0, 5, 10, 50, 100}

\* A tracker before its section mounts. hasObserver: the environment has
\* IntersectionObserver; observed: the observer holds the section as a
\* target; queue: entries queued for the next callback; seen: an entry with
\* ratio >= threshold was delivered in this mount; threw: the effect threw.
Tracker(hasObserver, threshold) ==
    [hasObserver |-> hasObserver, threshold |-> threshold, mounted |-> FALSE,
     isIntersecting |-> FALSE, observed |-> FALSE, queue |-> <<>>,
     observeCalls |-> 0, unobserveCalls |-> 0, mounts |-> 0, seen |-> FALSE,
     threw |-> FALSE]

\* entry.isIntersecting for a region whose visible fraction is f: true when
\* the fraction is positive and has reached the threshold. Below the
\* threshold, or at fraction 0, engines differ and the geometry decides
\* (the region may touch the viewport or be off screen): either value.
EntryFlags(f, threshold) ==
    IF f > 0 /\ f >= threshold THEN {TRUE} ELSE BOOLEAN

\* observer.unobserve(target): removing a target that is not observed
\* changes nothing
Unobserve(tr) ==
    [tr EXCEPT !.observed = FALSE,
               !.unobserveCalls = Min(tr.unobserveCalls + 1, 2)]

\* a callback that follows every entry and keeps observing
ObserverCallback_Follows(tr, entries) ==
    IF tr.mounted
    THEN [tr EXCEPT !.isIntersecting = entries[1].isIntersecting]
    ELSE tr

\* the observer callback: ([entry]) => { if (entry.isIntersecting) {
\* setIntersecting(true); if (ref.current) observer.unobserve(ref.current) } }
\* ref.current is the section while it is mounted and null afterwards.
ObserverCallback(tr, entries) ==
    LET entry == entries[1]
    IN  IF entry.isIntersecting
        THEN IF tr.mounted
             THEN Unobserve([tr EXCEPT !.isIntersecting = TRUE])
             ELSE tr
        ELSE tr

\* an effect without its cleanup
EffectCleanup_Missing(tr) == tr

\* the cleanup of the effect: if (currentRef) observer.unobserve(currentRef)
EffectCleanup(tr) == Unobserve(tr)

\* the effect: new IntersectionObserver(...) throws a ReferenceError where
\* the constructor does not exist, and the tree is unmounted; otherwise
\* currentRef = ref.current is observed.
Effect(tr) ==
    IF tr.hasObserver
    THEN [tr EXCEPT !.observed = TRUE, !.observeCalls = 1, !.queue = <<>>]
    ELSE [tr EXCEPT !.threw = TRUE, !.mounted = FALSE]

NoTracker == Tracker(TRUE, 10)

Init == Mounted /\ watch = FALSE /\ tracker = NoTracker

InitTimed == Mounted /\ watch = TRUE /\ tracker = NoTracker

InitTracker ==
    /\ Mounted
    /\ watch = FALSE
    /\ tracker \in {Tracker(h, t) : h \in BOOLEAN, t \in Thresholds}

\* AnimatedSection mounts: useState(false), then the effect runs
TrackerMount ==
    /\ ~tracker.mounted
    /\ ~tracker.threw
    /\ tracker.mounts < MaxMounts
    /\ tracker' = Effect([tracker EXCEPT !.mounted = TRUE,
                                         !.isIntersecting = FALSE,
                                         !.observeCalls = 0,
                                         !.unobserveCalls = 0,
                                         !.seen = FALSE,
                                         !.mounts = tracker.mounts + 1])

\* AnimatedSection unmounts: the cleanup runs and the state is gone
TrackerUnmount ==
    /\ tracker.mounted
    /\ tracker' = [EffectCleanup(tracker) EXCEPT !.mounted = FALSE,
                                                 !.isIntersecting = FALSE]

\* the observer computes the intersection of its target and queues an entry
Sample(f, b) ==
    /\ tracker.observed
    /\ Len(tracker.queue) < MaxQueue
    /\ b \in EntryFlags(f, tracker.threshold)
    /\ tracker' = [tracker EXCEPT
                      !.queue = Append(@, [ratio |-> f, isIntersecting |-> b])]

\* the observer hands its queued entries to the callback
Deliver ==
    /\ tracker.queue # <<>>
    /\ LET entries == tracker.queue
           reached == \E i \in DOMAIN entries :
                          entries[i].ratio >= tracker.threshold
       IN  tracker' = [ObserverCallback(tracker, entries) EXCEPT
                          !.queue = <<>>,
                          !.seen = @ \/ (tracker.mounted /\ reached)]

NextTracker ==
    /\ UNCHANGED pageVars
    /\ \/ TrackerMount
       \/ TrackerUnmount
       \/ \E f \in Fractions : \E b \in BOOLEAN : Sample(f, b)
       \/ Deliver

SpecTracker == InitTracker /\ [][NextTracker]_vars

\* onBookDemoClick: setIsModalOpen(true); a new DemoModal mounts
OpenModal ==
    /\ ~isModalOpen
    /\ isModalOpen' = TRUE
    /\ formData' = EmptyForm
    /\ isSending' = FALSE
    /\ timers' = AppRender(timers, toast # NoToast, toast)
    /\ last' = Ev("open", NoToast, FALSE, FALSE, FALSE)
    /\ UNCHANGED <<toast, pending, toastAge, replaced>>

\* backdrop or x button: onClose, that is setIsModalOpen(false); the
\* DemoModal unmounts and its state is gone
CloseModal ==
    /\ isModalOpen
    /\ isModalOpen' = FALSE
    /\ formData' = EmptyForm
    /\ isSending' = FALSE
    /\ timers' = AppRender(timers, toast # NoToast, toast)
    /\ pending' = [i \in DOMAIN pending |-> [pending[i] EXCEPT !.mounted = FALSE]]
    /\ last' = Ev("close", NoToast, TRUE, FALSE, FALSE)
    /\ UNCHANGED <<toast, toastAge, replaced>>

\* a handler that builds the new form from the changed field alone
handleChange_DropsOthers(f, v) ==
    /\ isModalOpen
    /\ formData[f] # v
    /\ formData' = [EmptyForm EXCEPT ![f] = v]
    /\ last' = Ev("change", NoToast, FALSE, FALSE, FALSE)
    /\ UNCHANGED <<isModalOpen, isSending, toast, timers, pending, toastAge,
                   replaced>>

\* a handler that writes into the object the form shares with its deliveries
handleChange_WritesThrough(f, v) ==
    /\ isModalOpen
    /\ formData[f] # v
    /\ formData' = [formData EXCEPT ![f] = v]
    /\ pending' = [i \in DOMAIN pending |->
                      IF pending[i].mounted
                      THEN [pending[i] EXCEPT !.data[f] = v]
                      ELSE pending[i]]
    /\ last' = Ev("change", NoToast, FALSE, FALSE, FALSE)
    /\ UNCHANGED <<isModalOpen, isSending, toast, timers, toastAge, replaced>>

\* handleChange: setFormData({ ...formData, [e.target.name]: e.target.value })
handleChange(f, v) ==
    /\ isModalOpen
    /\ formData[f] # v
    /\ formData' = [formData EXCEPT ![f] = v]
    /\ last' = Ev("change", NoToast, FALSE, FALSE, FALSE)
    /\ UNCHANGED <<isModalOpen, isSending, toast, timers, pending, toastAge,
                   replaced>>

\* The user activates the submit button (click, or Enter in an input). A
\* disabled button dispatches nothing; otherwise handleSubmit runs up to
\* its await, and React renders the new isSending before the next event.
\* handleSubmit does its own validation and is entered with whatever the
\* form holds: the required and type="email" attributes of the inputs are
\* left to the user agent and are not relied on.
Submit ==
    /\ isModalOpen
    /\ IF SubmitDisabled
       THEN /\ last' = Ev("submit-disabled", NoToast, FALSE, FALSE, FALSE)
            /\ UNCHANGED <<isModalOpen, formData, isSending, toast, timers,
                           pending, toastAge, replaced>>
       ELSE LET v == Validate(formData) IN
            IF v = "ok"
            THEN /\ Len(pending) < MaxPending
                 /\ isSending' = TRUE
                 /\ pending' = pending \o Invoke(formData)
                 /\ last' = Ev("submit", NoToast, FALSE, TRUE, FALSE)
                 /\ UNCHANGED <<isModalOpen, formData, toast, timers, toastAge,
                                replaced>>
            ELSE LET m == IF v = "missing" THEN MsgMissing ELSE MsgInvalid
                 IN  /\ toast' = showToast("error", m)
                     /\ toastAge' = 0
                     /\ replaced' = (watch /\ toast # NoToast)
                     /\ timers' = AppRender(timers, toast # NoToast, toast')
                     /\ last' = Ev("submit", Notification("error", m), FALSE, FALSE,
                                   FALSE)
                     /\ UNCHANGED <<isModalOpen, formData, isSending, pending>>

\* The oldest sendEmail call resolves and handleSubmit continues after its
\* await: setIsSending(false), showToast, and onClose on success. The state
\* setters of an unmounted DemoModal do nothing; showToast and onClose are
\* App's and act whether or not the DemoModal is still mounted.
Resolve ==
    /\ pending # <<>>
    /\ Head(pending).left = 0
    /\ LET p == Head(pending)
           result == sendEmail(p.data)
           type == IF result.success THEN "success" ELSE "error"
           calls == Continuation(result)
           closes == CallAt(calls, "onClose") > 0
       IN  /\ pending' = IF closes
                         THEN [i \in DOMAIN Tail(pending) |->
                                  [Tail(pending)[i] EXCEPT !.mounted = FALSE]]
                         ELSE Tail(pending)
           /\ toast' = showToast(type, result.message)
           /\ toastAge' = 0
           /\ replaced' = (watch /\ toast # NoToast)
           /\ timers' = AppRender(timers, toast # NoToast, toast')
           /\ isModalOpen' = IF closes THEN FALSE ELSE isModalOpen
           /\ formData' = IF closes THEN EmptyForm ELSE formData
           /\ isSending' = IF closes THEN FALSE
                           ELSE IF p.mounted /\ CallAt(calls, "setIsSending") > 0
                                THEN FALSE
                                ELSE isSending
           /\ last' = [Ev("resolve", Notification(type, result.message), closes,
                          FALSE, ~p.mounted) EXCEPT !.calls = calls]

\* A timer of Toast fires: onClose(), that is setToast(null); the Toast
\* unmounts and its effect is cleaned up.
Timeout(i) ==
    /\ i \in DOMAIN timers
    /\ timers[i].left = 0
    /\ LET fired == [j \in 1..(Len(timers) - 1) |->
                        IF j < i THEN timers[j] ELSE timers[j + 1]]
       IN  /\ toast' = NoToast
           /\ toastAge' = 0
           /\ replaced' = FALSE
           /\ timers' = AppRender(fired, toast # NoToast, NoToast)
           /\ last' = Ev("timeout", NoToast, FALSE, FALSE, FALSE)
           /\ UNCHANGED <<isModalOpen, formData, isSending, pending>>

\* TickMs pass; a callback that is due runs before more time passes
Tick ==
    /\ timers # <<>> \/ pending # <<>>
    /\ \A i \in DOMAIN timers : timers[i].left > 0
    /\ \A i \in DOMAIN pending : pending[i].left > 0
    /\ timers' = [i \in DOMAIN timers |->
                     [timers[i] EXCEPT !.left = timers[i].left - TickMs]]
    /\ pending' = [i \in DOMAIN pending |->
                      [pending[i] EXCEPT !.left = pending[i].left - TickMs]]
    /\ toastAge' = IF watch /\ toast # NoToast
                   THEN Min(toastAge + TickMs, AgeCap) ELSE 0
    /\ last' = Ev("tick", NoToast, FALSE, FALSE, FALSE)
    /\ UNCHANGED <<isModalOpen, formData, isSending, toast, replaced>>

Next ==
    /\ UNCHANGED <<watch, tracker>>
    /\ \/ OpenModal
       \/ CloseModal
       \/ \E f \in FieldNames : \E v \in FieldValues(f) : handleChange(f, v)
       \/ Submit
       \/ Resolve
       \/ \E i \in DOMAIN timers : Timeout(i)
       \/ Tick

Spec == Init /\ [][Next]_vars

\* what the user types in the behaviours with the stopwatch running
TimedInput ==
    /\ formData.email \in {E_empty, E_fail, E_ok}
    /\ formData.message = ""

NextTimed == Next /\ TimedInput'

\* the same program with the stopwatch running
SpecTimed == InitTimed /\ [][NextTimed]_vars

\* The event loop runs every callback that is due and time goes on: a
\* setTimeout callback or a promise continuation that can run does run.
Fairness ==
    /\ WF_vars(Tick /\ UNCHANGED <<watch, tracker>>)
    /\ WF_vars(Resolve /\ UNCHANGED <<watch, tracker>>)
    /\ WF_vars((\E i \in DOMAIN timers : Timeout(i)) /\ UNCHANGED <<watch, tracker>>)

SpecLive == Init /\ [][NextTimed]_vars /\ Fairness

TypeOK ==
    /\ isModalOpen \in BOOLEAN
    /\ isSending \in BOOLEAN
    /\ toastAge \in 0..AgeCap

\* ================================================================== claims

\* the sendEmail calls in flight that the mounted DemoModal made
MountedPending == {i \in DOMAIN pending : pending[i].mounted}

\* the three required fields, as the form holds them
NameEmpty == formData.name = ""
EmailEmpty == Len(formData.email) = 0
OrganizationEmpty == formData.organization = ""
AnyRequiredEmpty == NameEmpty \/ EmailEmpty \/ OrganizationEmpty

\* the two malformed shapes the specification names
NoAt(e) == \A i \in DOMAIN e : e[i] # "@"
NoDotInDomain(e) ==
    /\ ~NoAt(e)
    /\ LET at == CHOOSE k \in DOMAIN e :
                    e[k] = "@" /\ \A j \in DOMAIN e : e[j] = "@" => j <= k
       IN  \A i \in (at + 1)..Len(e) : e[i] # "."

\* C1: a submit triggered while the dialog is Sending starts no delivery:
\* the step leaves the deliveries in flight as they were, and the mounted
\* dialog still has exactly the one delivery of its first submit.
C1_NoDoubleSubmit ==
    [][(isModalOpen /\ isSending /\ last'.op \in {"submit", "submit-disabled"})
          => /\ ~last'.sent
             /\ pending' = pending
             /\ Cardinality(MountedPending') = 1]_vars

C1_Witness ==
    /\ last.op = "submit-disabled"
    /\ isSending
    /\ Cardinality(MountedPending) = 1

\* C2: a delivery that resolves after its dialog was closed has no effect:
\* it hands no Notification to the sink, fires no close signal, and leaves
\* the notification on screen and the dialog-open state as they were.
C2_StaleResultDiscarded ==
    [][(last'.op = "resolve" /\ last'.stale)
          => /\ last'.emitted = NoToast
             /\ ~last'.closeSignal
             /\ toast' = toast
             /\ isModalOpen' = isModalOpen]_vars

\* C3 as stated: at most one delivery is in flight on the whole page.
C3_AtMostOneOutstanding == Len(pending) <= 1

\* C3 amended: the mounted dialog instance has at most one delivery in
\* flight; deliveries of closed instances may still be in flight beside it.
C3_OnePerInstance == Cardinality(MountedPending) <= 1

C3_Witness ==
    /\ Len(pending) = 2
    /\ Cardinality(MountedPending) = 1
    /\ isSending

\* C4: a Notification on screen is never older than its 5000 ms timeout.
C4_LifetimeWithinTimeout == toast # NoToast => toastAge <= ToastMs

\* C5: while a Notification that replaced another one is on screen, exactly
\* one dismiss timer is pending, and it is due 5000 ms after that
\* Notification was emitted.
C5_OneTimerDueOnTime ==
    (toast # NoToast /\ replaced)
        => /\ Len(timers) = 1
           /\ timers[1].left = ToastMs - toastAge

\* C6: the notification on screen is the one most recently handed to the
\* sink: an emission replaces whatever was shown, and the notification on
\* screen changes only by an emission or by its dismissal.
C6_LatestReplaces ==
    [][/\ last'.emitted # NoToast => toast' = last'.emitted
       /\ toast' # toast => toast' \in {NoToast, last'.emitted}]_vars

C6_Witness ==
    /\ last.emitted # NoToast
    /\ last.over # NoToast
    /\ last.over # last.emitted
    /\ toast = last.emitted

\* C7: handleSubmit with name, email or organization empty emits the
\* missing-fields error, calls no delivery, does not enter Sending and
\* leaves the dialog open with its fields as they were.
C7_MissingFields ==
    [][(last'.op = "submit" /\ AnyRequiredEmpty)
          => /\ last'.emitted = Notification("error", MsgMissing)
             /\ toast' = Notification("error", MsgMissing)
             /\ ~last'.sent
             /\ pending' = pending
             /\ ~isSending'
             /\ isModalOpen'
             /\ formData' = formData]_vars

C7_Witness ==
    /\ last.op = "submit"
    /\ toast = Notification("error", MsgMissing)
    /\ OrganizationEmpty /\ ~NameEmpty /\ formData.email = E_ok

\* C8: handleSubmit with the three required fields filled and an email that
\* does not match the pattern (one without "@", one whose domain has no
\* dot) emits the invalid-email error, calls no delivery and does not enter
\* Sending.
C8_InvalidEmail ==
    [][(/\ last'.op = "submit"
        /\ ~AnyRequiredEmpty
        /\ \/ NoAt(formData.email)
           \/ NoDotInDomain(formData.email)
           \/ ~validateEmail(formData.email))
          => /\ last'.emitted = Notification("error", MsgInvalid)
             /\ toast' = Notification("error", MsgInvalid)
             /\ ~last'.sent
             /\ pending' = pending
             /\ ~isSending']_vars

C8_Witness ==
    /\ last.op = "submit"
    /\ toast = Notification("error", MsgInvalid)
    /\ ~AnyRequiredEmpty
    /\ formData.email = E_nodot
    /\ pending = <<>>

\* C9: handleSubmit with a required field empty and a malformed email emits
\* the missing-fields error and not the invalid-email one.
C9_MissingFirst ==
    [][(/\ last'.op = "submit"
        /\ AnyRequiredEmpty
        /\ NoAt(formData.email))
          => /\ last'.emitted = Notification("error", MsgMissing)
             /\ last'.emitted # Notification("error", MsgInvalid)
             /\ toast' = last'.emitted]_vars

C9_Witness ==
    /\ last.op = "submit"
    /\ NameEmpty
    /\ formData.email = E_bad
    /\ toast = Notification("error", MsgMissing)

\* C10: a handleSubmit whose form passes validation calls sendEmail once,
\* with the whole form; no other event calls it, so the deliveries in
\* flight grow by that one call and by nothing else (no retry).
C10_OneDeliveryPerAcceptedSubmit ==
    [][IF /\ last'.op = "submit"
          /\ ~AnyRequiredEmpty
          /\ validateEmail(formData.email)
       THEN /\ last'.sent
            /\ pending' = Append(pending, [data |-> formData, left |-> SendMs,
                                           mounted |-> TRUE])
       ELSE /\ ~last'.sent
            /\ Len(pending') <= Len(pending)
            /\ \A i \in DOMAIN pending' :
                  \E j \in DOMAIN pending : pending'[i].data = pending[j].data]_vars

C10_Witness ==
    /\ last.op = "submit"
    /\ last.sent
    /\ pending # <<>>
    /\ pending[Len(pending)].data = formData
    /\ formData.message = ""
    /\ formData.email = E_fail

\* the email holds the letters f, a, i, l in a row
ContainsFail(e) ==
    \E i \in 1..(Len(e) - 3) :
        e[i] = "f" /\ e[i + 1] = "a" /\ e[i + 2] = "i" /\ e[i + 3] = "l"

\* C11: when the delivery of the mounted dialog resolves with a failure, an
\* error Notification with the transport's message is emitted, no close
\* signal fires, the dialog stays open, isSending is false again and the
\* four fields hold what they held.
C11_FailedPath ==
    [][(/\ last'.op = "resolve"
        /\ ~last'.stale
        /\ ContainsFail(Head(pending).data.email))
          => /\ last'.emitted = Notification("error", MsgFailed)
             /\ toast' = Notification("error", MsgFailed)
             /\ ~last'.closeSignal
             /\ isModalOpen /\ isModalOpen'
             /\ isSending /\ ~isSending'
             /\ ~SubmitDisabled'
             /\ formData' = formData]_vars

C11_Witness ==
    /\ last.op = "resolve"
    /\ ~last.stale
    /\ last.emitted = Notification("error", MsgFailed)
    /\ isModalOpen
    /\ ~isSending
    /\ formData = [name |-> "Ann", email |-> E_fail, organization |-> "Orbis",
                   message |-> "hi"]

\* C12: when the delivery of the mounted dialog resolves with a success, the
\* success Notification with the transport's message is emitted first and
\* the close signal fires after it, once; the dialog is closed and the
\* Notification is on screen with its dismiss timer running, and it leaves
\* the screen only by its timeout or by a later emission.
C12_SucceededPath ==
    [][/\ (/\ last'.op = "resolve"
           /\ ~last'.stale
           /\ ~ContainsFail(Head(pending).data.email))
          => /\ last'.emitted = Notification("success", MsgSuccess)
             /\ toast' = Notification("success", MsgSuccess)
             /\ last'.closeSignal
             /\ Cardinality({i \in DOMAIN last'.calls : last'.calls[i] = "onClose"}) = 1
             /\ 0 < CallAt(last'.calls, "showToast")
             /\ CallAt(last'.calls, "showToast") < CallAt(last'.calls, "onClose")
             /\ isModalOpen /\ ~isModalOpen'
             /\ Len(timers') = 1 /\ timers'[1].left = ToastMs
       /\ (toast.type = "success" /\ toast' # toast)
          => last'.op = "timeout" \/ last'.emitted # NoToast]_vars

C12_Witness ==
    /\ last.op = "tick"
    /\ ~isModalOpen
    /\ toast = Notification("success", MsgSuccess)
    /\ Len(timers) = 1 /\ timers[1].left < ToastMs
    /\ pending = <<>>

\* the emails of at most five letters over f, a, i, l and F
FailLetters == {"f", "a", "i", "l", "F"}
SampleEmails ==
    UNION {[1..n -> FailLetters] : n \in 0..5}

SamplesFollowPolicy ==
    \A e \in SampleEmails :
        /\ sendEmail([email |-> e]).success \in BOOLEAN
        /\ sendEmail([email |-> e]).success <=> ~ContainsFail(e)

\* C13: sendEmail gives one outcome, a failure exactly when the email holds
\* "fail": for every sample email, and for the email of every delivery that
\* resolves, whose Notification is the error one exactly in that case.
C13_MockPolicy ==
    [][/\ SamplesFollowPolicy
       /\ last'.op = "resolve"
          => /\ sendEmail(Head(pending).data).success
                   <=> ~ContainsFail(Head(pending).data.email)
             /\ last'.emitted.type = "error"
                   <=> ContainsFail(Head(pending).data.email)
             /\ last'.emitted.type \in {"error", "success"}]_vars

C13_Witness ==
    /\ last.op = "resolve"
    /\ last.emitted = Notification("error", MsgFailed)
    /\ ~sendEmail([email |-> E_fail]).success
    /\ sendEmail([email |-> E_ok]).success

\* C14: a dialog that is Sending leaves Sending, a delivery in flight
\* resolves, and a delivery of the mounted dialog that has resolved leaves
\* the dialog editable or closed.
C14_EverySubmitResolves ==
    /\ isSending ~> ~isSending
    /\ (pending # <<>>) ~> (last.op = "resolve" /\ last.emitted # NoToast)
    /\ []((last.op = "resolve" /\ ~last.stale) => (~isSending \/ ~isModalOpen))

C14_Witness ==
    /\ last.op = "resolve"
    /\ ~last.stale
    /\ last.emitted = Notification("error", MsgFailed)
    /\ isModalOpen
    /\ ~isSending

\* C15: the signal of a mounted tracker is true exactly when an observation
\* with a visible fraction of at least the threshold has been delivered
\* since it mounted.
C15_SignalIffObserved ==
    tracker.mounted => (tracker.isIntersecting <=> tracker.seen)

\* C16: the signal is false when the tracker mounts, and once true it stays
\* true for as long as the tracker is mounted.
C16_Monotonic ==
    [][/\ (~tracker.mounted /\ tracker'.mounted) => ~tracker'.isIntersecting
       /\ (tracker.mounted /\ tracker.isIntersecting /\ tracker'.mounted)
             => tracker'.isIntersecting]_vars

C16_Witness ==
    /\ tracker.mounted
    /\ tracker.isIntersecting
    /\ ~tracker.observed
    /\ tracker.mounts = 2

\* C17: a mounted tracker has called observe once; its observation is
\* active exactly while it is mounted and its signal is false; an unmounted
\* tracker has no observation and no signal; the release at unmount that
\* follows the release at visibility leaves nothing observed and no error.
C17_OneObservation ==
    /\ tracker.mounted => tracker.observeCalls = 1
    /\ tracker.observed <=> (tracker.mounted /\ ~tracker.isIntersecting)
    /\ ~tracker.mounted => ~tracker.isIntersecting
    /\ tracker.unobserveCalls = 2
          => (~tracker.mounted /\ ~tracker.observed /\ ~tracker.threw)

C17_Witness ==
    /\ ~tracker.mounted
    /\ tracker.mounts = 1
    /\ tracker.unobserveCalls = 2
    /\ ~tracker.observed

\* C18: where the environment has no IntersectionObserver the tracker
\* raises no error and its signal is true.
C18_FailOpen ==
    (~tracker.hasObserver /\ tracker.mounts > 0)
        => (~tracker.threw /\ tracker.mounted /\ tracker.isIntersecting)

\* C19: right after the dialog is opened, whatever happened before, the
\* dialog is open, name, email, organization and message are empty and the
\* submission is not Sending.
C19_OpensEmpty ==
    last.op = "open"
        => /\ isModalOpen
           /\ formData.name = ""
           /\ Len(formData.email) = 0
           /\ formData.organization = ""
           /\ formData.message = ""
           /\ ~isSending

\* reopened after closing mid-send: the closed dialog's delivery, with the
\* data typed into it, is still outstanding
C19_Witness ==
    /\ last.op = "open"
    /\ pending # <<>>
    /\ ~pending[1].mounted
    /\ pending[1].data.name = "Ann"
    /\ pending[1].data.message = "hi"
    /\ toast # NoToast

\* C20: while the dialog is open and not Sending every field accepts every
\* value, and a field update changes the named field only: the other three
\* fields, isSending, the open state, the Notification, its timer and the
\* outstanding deliveries stay as they were, nothing is emitted, no delivery
\* is invoked and no close signal is given.
C20_FieldUpdateFrame ==
    /\ []((isModalOpen /\ ~isSending)
            => \A f \in FieldNames : \A v \in FieldValues(f) :
                   formData[f] # v => ENABLED handleChange(f, v))
    /\ [][(last'.op = "change" /\ ~isSending)
            => /\ \E f \in FieldNames :
                     /\ formData'[f] # formData[f]
                     /\ formData'[f] \in FieldValues(f)
                     /\ \A g \in FieldNames \ {f} : formData'[g] = formData[g]
               /\ UNCHANGED <<isSending, isModalOpen, toast, timers, pending>>
               /\ last'.emitted = NoToast
               /\ ~last'.sent
               /\ ~last'.closeSignal]_vars

\* an address that fails validateEmail is accepted into a form whose other
\* fields are filled, next to a shown Notification
C20_Witness ==
    /\ last.op = "change"
    /\ ~isSending
    /\ formData.email = E_bad
    /\ formData.name = "Ann"
    /\ formData.organization = "Orbis"
    /\ toast # NoToast

\* C21: when the delivery of a dialog that was closed resolves while a
\* newly opened dialog is on screen, the new dialog stays open and keeps
\* its fields.
C21_StaleKeepsNewDialog ==
    [][(last'.op = "resolve" /\ last'.stale /\ isModalOpen)
          => (isModalOpen' /\ formData' = formData)]_vars

\* C22: the delivery gets the fields as they are at the submit, which pass
\* the validation; a field update leaves the data of every delivery in
\* flight as it was; the outcome follows the delivered email, not the form;
\* and after a failure the form holds what it held, edits included.
C22_SnapshotAtSubmit ==
    [][/\ (last'.op = "submit" /\ last'.sent)
            => /\ Len(pending') = Len(pending) + 1
               /\ pending'[Len(pending')].data = formData
               /\ ~AnyRequiredEmpty
               /\ validateEmail(formData.email)
       /\ (last'.op = "change")
            => /\ Len(pending') = Len(pending)
               /\ \A i \in DOMAIN pending :
                     pending'[i].data = pending[i].data
       /\ (last'.op = "resolve" /\ ~last'.stale)
            => /\ last'.emitted.type = "error"
                     <=> ContainsFail(Head(pending).data.email)
               /\ last'.emitted.type = "error"
                     => (isModalOpen' /\ formData' = formData)]_vars

\* the delivered email held "fail"; the form was edited while Sending to an
\* address that fails validateEmail and keeps it after the failure
C22_Witness ==
    /\ last.op = "resolve"
    /\ ~last.stale
    /\ last.emitted = Notification("error", MsgFailed)
    /\ isModalOpen
    /\ formData.email = E_bad
    /\ formData.name = ""

\* C23: a Toast timer is pending exactly when a Notification is shown, and
\* there is never more than one.
C23_TimerIffShown ==
    /\ (timers # <<>>) <=> (toast # NoToast)
    /\ Len(timers) <= 1

\* a Notification that replaced another one has one timer
C23_Witness ==
    /\ last.op = "resolve"
    /\ last.over # NoToast
    /\ toast # NoToast
    /\ Len(timers) = 1

\* C24: isSending of the mounted dialog is true exactly when a delivery
\* that this dialog invoked is outstanding.
C24_SendingIffOutstanding ==
    isSending <=> (isModalOpen /\ MountedPending # {})

\* the mounted dialog is Sending while a delivery of a closed dialog is
\* outstanding too
C24_Witness ==
    /\ isSending
    /\ Len(pending) = 2
    /\ ~pending[1].mounted
    /\ pending[2].mounted

====
